---- MODULE Spec2Model ----
(***************************************************************************)
(* Model of easyauth/server.py (class EasyAuthServer): the token tracking  *)
(* store with issue_token / revoke_token / token_cleanup, the protected    *)
(* request wrapper (router.mock_function), parse_permissions and           *)
(* get_user_permissions.                                                   *)
(*                                                                         *)
(* Python values are modelled as follows.                                  *)
(*   dict  : a function from its keys to its values                        *)
(*   list  : a sequence                                                    *)
(*   None  : the record None                                               *)
(*   a model object (Tokens, Groups, Roles, Actions): a record carrying a  *)
(*           field "model" with the class name, so that an object never    *)
(*           compares equal to a string                                    *)
(*   time  : an integer number of clock units (one unit = one minute)      *)
(***************************************************************************)
EXTENDS Integers, Sequences, FiniteSets, TLC

\* ---------------------------------------------------------------- bounds
\* the clock runs from 0 to MaxTime
MaxTime == 2
\* at most MaxTokens calls of issue_token (uuid4 values 1..MaxTokens)
MaxTokens == 2
\* at most MaxIssued calls of issue_token where protected requests run too
MaxIssued == 1

\* ------------------------------------------------------------- constants
None == [none |-> TRUE]
\* what a call gives its caller: a value returned or an exception raised
Return(value) == [kind |-> "return", value |-> value]
Raise(exc) == [kind |-> "raise", exc |-> exc]
\* an exception of the named class
Exc(name) == [exception |-> name]
\* the value of ret after a step that is not the return of a call
NoReturn == [op |-> "none"]
\* a token_id that uuid4 never returns (an id "never issued")
UnknownId == 0
\* the server key (self._privkey) and a key the server does not hold
ServerKey == "server_kid"
ForeignKey == "foreign_kid"
\* the four dimensions of a permission dict, in the order the code writes them
DimOrder == <<"users", "groups", "roles", "actions">>
Dims == {"users", "groups", "roles", "actions"}
\* concurrent callers of revoke_token
RevokeProcs == {"r1", "r2"}

VARIABLES
    now,          \* datetime.datetime.now()
    privkey,      \* self._privkey
    tokens,       \* the Tokens table: token_id -> record
    nextId,       \* the next value uuid.uuid4() returns
    issuedTokens, \* signed tokens issue_token has returned to callers
    issue,        \* the running issue_token call
    revoke,       \* the running revoke_token calls, one per caller
    cleanup,      \* the running token_cleanup call
    req,          \* the running protected request (mock_function)
    ret,          \* what the step just taken returned to its caller, if it returned
    calc,         \* the last call of a pure helper and its result
    Users,        \* the Users table
    oauth,        \* the OauthConfig table
    fed,          \* the running generate_google_oauth_token call
    files,        \* the key files: KEY_PATH/KEY_NAME.key and .pub
    boot          \* whether the server is constructed, and how often key_setup ran

vars == <<now, privkey, tokens, nextId, issuedTokens, issue, revoke, cleanup, req, ret, calc,
          Users, oauth, fed, files, boot>>

\* ------------------------------------------------------- python builtins
\* the keys of a dict as a list, in the order DimOrder
Keys(d) == SelectSeq(DimOrder, LAMBDA k : k \in DOMAIN d)

\* `x in list`
InList(x, list) == \E i \in 1..Len(list) : list[i] = x

\* the elements of a list
Elems(list) == {list[i] : i \in 1..Len(list)}

\* datetime.isoformat() and datetime.fromisoformat(): the stored string
\* carries the instant; parsing it gives the instant back
isoformat(t) == [iso |-> t]
fromisoformat(s) == s.iso

\* json encoding of the claims inside a signed token and its parsing
json_dumps(claims) == [json |-> claims]
json_loads(text) == text.json

\* ------------------------------------------------------ the Tokens table
\* Tokens.get(token_id=...): the record, or None
Tokens_get(store, token_id) ==
    IF token_id \in DOMAIN store THEN store[token_id] ELSE None

\* Tokens.create(**record)
Tokens_create(store, record) ==
    [id \in DOMAIN store \cup {record.token_id} |->
        IF id = record.token_id THEN record ELSE store[id]]

\* token.delete(): delete by primary key, nothing happens if it is gone
Tokens_delete(store, record) ==
    [id \in DOMAIN store \ {record.token_id} |-> store[id]]

\* Tokens.all(): the records as a list, ordered by token_id
RECURSIVE Tokens_list(_, _)
Tokens_list(store, ids) ==
    IF ids = {} THEN <<>>
    ELSE LET m == CHOOSE x \in ids : \A y \in ids : x <= y
         IN <<store[m]>> \o Tokens_list(store, ids \ {m})

Tokens_all(store) == Tokens_list(store, DOMAIN store)

\* Tokens.count()
Tokens_count(store) == Cardinality(DOMAIN store)

\* ------------------------------------------------------------ python_jwt
\* an RS256 signature: the key that made it and the text it was made over
rs256(key, text) == [key |-> key, over |-> text]

\* jwt.generate_jwt(payload, key, "RS256", lifetime) called at time t
generate_jwt(payload, key, lifetime, t) ==
    LET text == json_dumps([token_id    |-> payload.token_id,
                            permissions |-> payload.permissions,
                            exp         |-> t + lifetime])
    IN [header |-> "RS256", claims |-> text, sig |-> rs256(key, text)]

\* jwt.verify_jwt(token, key, ["RS256"]) called at time t:
\* <<header, claims>>, or None where the library raises
verify_jwt(token, key, t) ==
    IF "sig" \notin DOMAIN token THEN None
    ELSE IF token.sig # rs256(key, token.claims) THEN None
    ELSE IF json_loads(token.claims).exp <= t THEN None
    ELSE <<token.header, json_loads(token.claims)>>

\* decode_token with the expiry check left out
decode_token_noexp(token, key, t) ==
    IF "sig" \notin DOMAIN token THEN None
    ELSE IF token.sig # rs256(key, token.claims) THEN None
    ELSE <<token.header, json_loads(token.claims)>>

\* EasyAuthServer.decode_token
decode_token(token, key, t) == verify_jwt(token, key, t)

\* ------------------------------------------------------------ is_valid_token
is_valid_token(store, token_id) == Tokens_get(store, token_id) # None

\* --------------------------------------------------------------- issue_token
\* inputs of issue_token: permission snapshots and lifetimes (minutes > 0)
Snapshots ==
    { [users |-> <<"alice">>, groups |-> <<"administrators">>, actions |-> <<"read">>],
      [users |-> <<"bob">>, roles |-> <<"auditor">>] }
Lifetimes == {1, 2}
\* the snapshots and lifetimes issued where the sweep or requests run too
StoreSnapshots == {s \in Snapshots : s["users"] = <<"alice">>}
ShortLifetimes == {l \in Lifetimes : \A m \in Lifetimes : l <= m}

IssueIdle == [pc |-> "idle", token_id |-> UnknownId, permissions |-> <<>>,
              lifetime |-> 0, token |-> None]

\* the payload carrying the users of the snapshot alone
issue_payload_users_only(token_id, permissions) ==
    [token_id |-> token_id, permissions |-> [users |-> permissions["users"]]]

\* the payload built at lines 500-506 (iss, sub, aud are fixed strings)
issue_payload(token_id, permissions) ==
    [token_id |-> token_id, permissions |-> permissions]

\* the record handed to Tokens.create at lines 508-518, at time t
issue_record(token_id, permissions, lifetime, t) ==
    [model      |-> "Tokens",
     token_id   |-> token_id,
     username   |-> permissions["users"][1],
     issued     |-> isoformat(t),
     expiration |-> isoformat(t + lifetime),
     token      |-> permissions]

\* issue_token up to the return of `await Tokens.create(...)`
IssueCreate(permissions, lifetime) ==
    /\ issue.pc = "idle"
    /\ tokens' = Tokens_create(tokens, issue_record(nextId, permissions, lifetime, now))
    /\ nextId' = nextId + 1
    /\ issue' = [pc |-> "created", token_id |-> nextId, permissions |-> permissions,
                 lifetime |-> lifetime, token |-> None]
    /\ ret' = NoReturn
    /\ UNCHANGED <<now, privkey, issuedTokens, revoke, cleanup, req, calc, Users, oauth, fed, files, boot>>

\* a JWK without its private half, as EasyAuthServer(private_key=...) accepts it
PublicOnlyKey == "public_only_kid"

\* jwt.generate_jwt signs with a key that has a private half
can_sign(key) == key # PublicOnlyKey

\* snapshots issue_token cannot take a username from
UserlessSnapshots == { [groups |-> <<"administrators">>], [users |-> <<>>] }

\* permissions["users"][0]
first_user(permissions) ==
    IF "users" \notin DOMAIN permissions THEN Raise(Exc("KeyError"))
    ELSE IF permissions["users"] = <<>> THEN Raise(Exc("IndexError"))
    ELSE Return(permissions["users"][1])

\* issue_token leaves by an exception at or before Tokens.create: the
\* username cannot be read, or the store refuses the record
IssueCreateRaises(permissions, store_fails) ==
    /\ issue.pc = "idle"
    /\ first_user(permissions).kind = "raise" \/ store_fails
    /\ nextId' = nextId + 1
    /\ ret' = [op |-> "issue_token", token_id |-> nextId,
               result |-> IF first_user(permissions).kind = "raise"
                          THEN first_user(permissions)
                          ELSE Raise(Exc("OperationalError"))]
    /\ UNCHANGED <<now, privkey, tokens, issuedTokens, issue, revoke, cleanup, req, calc,
                   Users, oauth, fed, files, boot>>

\* issue_token leaves by the exception of jwt.generate_jwt
IssueSignRaises ==
    /\ issue.pc = "created"
    /\ ~can_sign(privkey)
    /\ ret' = [op |-> "issue_token", token_id |-> issue.token_id,
               result |-> Raise(Exc("InvalidJWSOperation"))]
    /\ issue' = IssueIdle
    /\ UNCHANGED <<now, privkey, tokens, nextId, issuedTokens, revoke, cleanup, req, calc,
                   Users, oauth, fed, files, boot>>

\* issue_token from jwt.generate_jwt to the return of the signed token
IssueSign ==
    /\ issue.pc = "created"
    /\ can_sign(privkey)
    /\ LET token == generate_jwt(issue_payload(issue.token_id, issue.permissions),
                                 privkey, issue.lifetime, now)
       IN /\ ret' = [op |-> "issue_token", token_id |-> issue.token_id,
                      permissions |-> issue.permissions,
                      lifetime |-> issue.lifetime, token |-> token]
          /\ issuedTokens' = issuedTokens \cup {token}
    /\ issue' = IssueIdle
    /\ UNCHANGED <<now, privkey, tokens, nextId, revoke, cleanup, req, calc, Users, oauth, fed, files, boot>>

\* -------------------------------------------------------------- revoke_token
RevokeIdle == [pc |-> "idle", token_id |-> UnknownId, token |-> None]

\* lines 475-476 with the delete never run (token.delete() not awaited)
revoke_delete_not_awaited(store, token) == store

\* lines 475-476: if token: await token.delete()
revoke_delete(store, token) ==
    IF token # None THEN Tokens_delete(store, token) ELSE store

\* token ids a caller can name: one never issued, and the id of every token
\* issue_token has returned
KnownIds == {UnknownId} \cup {json_loads(t.claims).token_id : t \in issuedTokens}

\* revoke_token up to the return of `await Tokens.get(...)`
RevokeGet(p, token_id) ==
    /\ revoke[p].pc = "idle"
    /\ revoke' = [revoke EXCEPT ![p] = [pc |-> "got", token_id |-> token_id,
                                        token |-> Tokens_get(tokens, token_id)]]
    /\ ret' = NoReturn
    /\ UNCHANGED <<now, privkey, tokens, nextId, issuedTokens, issue, cleanup, req, calc, Users, oauth, fed, files, boot>>

\* revoke_token from `if token:` to its return
RevokeDelete(p) ==
    /\ revoke[p].pc = "got"
    /\ tokens' = revoke_delete(tokens, revoke[p].token)
    /\ revoke' = [revoke EXCEPT ![p] = RevokeIdle]
    /\ ret' = [op |-> "revoke_token", token_id |-> revoke[p].token_id]
    /\ UNCHANGED <<now, privkey, nextId, issuedTokens, issue, cleanup, req, calc, Users, oauth, fed, files, boot>>

\* ------------------------------------------------------------- token_cleanup
CleanupIdle == [pc |-> "idle", all_tokens |-> <<>>, i |-> 1, deleted |-> 0]

\* the test of lines 487-488 with >= in place of >
is_expired_or_due(token, t) == t >= fromisoformat(token.expiration)

\* lines 487-488: datetime.now() > fromisoformat(token.expiration)
is_expired(token, t) == t > fromisoformat(token.expiration)

\* one turn of the comprehension that deletes every record of the token's user
token_cleanup_step_by_user(store, token, t) ==
    IF is_expired(token, t)
    THEN [id \in {x \in DOMAIN store : store[x].username # token.username} |-> store[id]]
    ELSE store

\* one turn of the comprehension of lines 484-489, at time t
token_cleanup_step(store, token, t) ==
    IF is_expired(token, t) THEN Tokens_delete(store, token) ELSE store

\* lines 490-491
removed_count(all_tokens, store) == Len(all_tokens) - Tokens_count(store)

\* token_cleanup up to the return of `await Tokens.all()`
CleanupAll ==
    /\ cleanup.pc = "idle"
    /\ cleanup' = [pc |-> "sweep", all_tokens |-> Tokens_all(tokens), i |-> 1,
                   deleted |-> 0]
    /\ ret' = NoReturn
    /\ UNCHANGED <<now, privkey, tokens, nextId, issuedTokens, issue, revoke, req, calc, Users, oauth, fed, files, boot>>

\* one turn of the comprehension; `deleted` counts the records this sweep
\* took out of the table (it is not a variable of the program)
CleanupStep ==
    /\ cleanup.pc = "sweep"
    /\ cleanup.i <= Len(cleanup.all_tokens)
    /\ LET token == cleanup.all_tokens[cleanup.i]
       IN /\ tokens' = token_cleanup_step(tokens, token, now)
          /\ cleanup' = [cleanup EXCEPT
                            !.i = @ + 1,
                            !.deleted = @ + Cardinality(DOMAIN tokens \ DOMAIN tokens')]
    /\ ret' = NoReturn
    /\ UNCHANGED <<now, privkey, nextId, issuedTokens, issue, revoke, req, calc, Users, oauth, fed, files, boot>>

\* token_cleanup from `await Tokens.count()` to its return
CleanupCount ==
    /\ cleanup.pc = "sweep"
    /\ cleanup.i > Len(cleanup.all_tokens)
    /\ ret' = [op |-> "token_cleanup",
                removed_count |-> removed_count(cleanup.all_tokens, tokens),
                deleted |-> cleanup.deleted]
    /\ cleanup' = CleanupIdle
    /\ UNCHANGED <<now, privkey, tokens, nextId, issuedTokens, issue, revoke, req, calc, Users, oauth, fed, files, boot>>

\* --------------------------------------------------------------- the clock
Tick ==
    /\ now < MaxTime
    /\ now' = now + 1
    /\ ret' = NoReturn
    /\ UNCHANGED <<privkey, tokens, nextId, issuedTokens, issue, revoke, cleanup, req, calc, Users, oauth, fed, files, boot>>

\* ------------------------------------------------- router.mock_function
\* the login page answered with the ref cookie naming the login path
LoginResponse_ref_login(path) ==
    [status |-> 401, body |-> "login_page",
     cookies |-> {<<"token", "INVALID">>, <<"ref", "/login">>}, detail |-> <<>>]

\* a response: status, which body, cookies set, detail of an HTTPException
LoginResponse(path) ==
    [status |-> 401, body |-> "login_page",
     cookies |-> {<<"token", "INVALID">>, <<"ref", path>>}, detail |-> <<>>]
HTTPException(status, detail) ==
    [status |-> status, body |-> "json", cookies |-> {}, detail |-> detail]
ForbiddenPage ==
    [status |-> 403, body |-> "forbidden_page", cookies |-> {}, detail |-> <<>>]
HandlerResult ==
    [status |-> 200, body |-> "handler", cookies |-> {}, detail |-> <<>>]
\* what the server answers when an exception leaves the handler
ServerError ==
    [status |-> 500, body |-> "server_error", cookies |-> {}, detail |-> <<>>]
NoResponse ==
    [status |-> 0, body |-> "", cookies |-> {}, detail |-> <<>>]

NO_TOKEN == [raw |-> "NO_TOKEN"]
Garbage == [raw |-> "garbage"]

\* `"text/html" in request.headers["accept"]`: "yes", "no" or "KeyError"
accepts_html(headers) ==
    IF "accept" \notin DOMAIN headers THEN "KeyError"
    ELSE IF InList("text/html", headers["accept"]) THEN "yes" ELSE "no"

\* `response_class is HTMLResponse or "text/html" in request.headers["accept"]`
wants_html(response_class, headers) ==
    IF response_class = "HTMLResponse" THEN "yes" ELSE accepts_html(headers)

\* the 401 answer built at lines 764-783 and 788-807
unauthorized(response_class, headers, path) ==
    CASE wants_html(response_class, headers) = "KeyError" -> ServerError
      [] wants_html(response_class, headers) = "yes" -> LoginResponse(path)
      [] OTHER -> HTTPException(401, <<"not authorized, invalid or expired">>)

\* the inner loop of lines 815-818
RECURSIVE values_loop(_, _, _)
values_loop(values, held, allowed) ==
    IF values = <<>> THEN allowed
    ELSE IF InList(Head(values), held) THEN TRUE
    ELSE values_loop(Tail(values), held, allowed)

\* the loop with the result of the last dimension overwriting `allowed`
RECURSIVE permissions_loop_last(_, _, _, _)
permissions_loop_last(auth_types, permissions, token_permissions, allowed) ==
    IF auth_types = <<>> THEN allowed
    ELSE LET auth_type == Head(auth_types)
         IN IF auth_type \notin DOMAIN token_permissions
            THEN permissions_loop_last(Tail(auth_types), permissions, token_permissions, allowed)
            ELSE permissions_loop_last(Tail(auth_types), permissions, token_permissions,
                    values_loop(permissions[auth_type], token_permissions[auth_type], FALSE))

\* the loop of lines 811-818 over permissions.items()
RECURSIVE permissions_loop(_, _, _, _)
permissions_loop(auth_types, permissions, token_permissions, allowed) ==
    IF auth_types = <<>> THEN allowed
    ELSE LET auth_type == Head(auth_types)
         IN IF auth_type \notin DOMAIN token_permissions
            THEN permissions_loop(Tail(auth_types), permissions, token_permissions, allowed)
            ELSE permissions_loop(Tail(auth_types), permissions, token_permissions,
                    values_loop(permissions[auth_type], token_permissions[auth_type], allowed))

\* lines 809-818: allowed = False, then the loop
is_allowed(permissions, token_permissions) ==
    permissions_loop(Keys(permissions), permissions, token_permissions, FALSE)

\* lines 820-830
forbidden(response_class, permissions) ==
    IF response_class = "HTMLResponse" THEN ForbiddenPage
    ELSE HTTPException(403, <<"not authorized, permissions required: ", permissions>>)

\* the middleware handle_401_403 (lines 152-175) applied to a response
handle_401_403(response, headers, path) ==
    IF response.status \in {401, 404}
    THEN CASE accepts_html(headers) = "KeyError" -> ServerError
           [] accepts_html(headers) = "yes" -> LoginResponse(path)
           [] OTHER -> response
    ELSE response

\* what leaves the server: an exception out of the handler is answered with
\* 500 and does not pass through the rest of handle_401_403
served(response, headers, path) ==
    IF response = ServerError THEN ServerError
    ELSE handle_401_403(response, headers, path)

ReqIdle == [pc |-> "idle", token |-> NO_TOKEN, headers |-> <<>>,
            response_class |-> "", permissions |-> <<>>, path |-> "",
            claims |-> None, called |-> FALSE, response |-> NoResponse]

\* lines 739-783: the NO_TOKEN test and decode_token, before `await Tokens.get`
mock_function_decode(token, headers, response_class, permissions, path) ==
    LET r == [pc |-> "done", token |-> token, headers |-> headers,
              response_class |-> response_class, permissions |-> permissions,
              path |-> path, claims |-> None, called |-> FALSE,
              response |-> NoResponse]
        decoded == decode_token(token, privkey, now)
    IN  IF token = NO_TOKEN /\ wants_html(response_class, headers) = "KeyError"
        THEN [r EXCEPT !.response = ServerError]
        ELSE IF token = NO_TOKEN /\ wants_html(response_class, headers) = "yes"
        THEN [r EXCEPT !.response = served(LoginResponse(path), headers, path)]
        ELSE IF decoded = None
        THEN [r EXCEPT !.response =
                 served(unauthorized(response_class, headers, path), headers, path)]
        ELSE [r EXCEPT !.pc = "decoded", !.claims = decoded[2]]

\* lines 784-843 with the groups held taken from the user's row in Users as
\* it is when the request is checked
mock_function_check_live(r, store) ==
    LET user == CHOOSE u \in Users : u.username = r.claims.permissions["users"][1]
        held == [groups |-> [i \in 1..Len(user.groups) |-> user.groups[i].group_name]]
    IN  IF Tokens_get(store, r.claims.token_id) = None
        THEN [r EXCEPT !.pc = "done", !.response = ServerError]
        ELSE IF ~is_allowed(r.permissions, held)
        THEN [r EXCEPT !.pc = "done", !.response =
                 served(forbidden(r.response_class, r.permissions), r.headers, r.path)]
        ELSE [r EXCEPT !.pc = "done", !.called = TRUE,
                       !.response = served(HandlerResult, r.headers, r.path)]

\* lines 784-843: the store lookup, the permission check and the handler
mock_function_check(r, store) ==
    IF Tokens_get(store, r.claims.token_id) = None
    THEN IF "user" \notin DOMAIN r.claims.permissions
         THEN [r EXCEPT !.pc = "done", !.response = ServerError]
         ELSE [r EXCEPT !.pc = "done", !.response =
                 served(unauthorized(r.response_class, r.headers, r.path),
                        r.headers, r.path)]
    ELSE IF ~is_allowed(r.permissions, r.claims.permissions)
    THEN [r EXCEPT !.pc = "done", !.response =
             served(forbidden(r.response_class, r.permissions), r.headers, r.path)]
    ELSE [r EXCEPT !.pc = "done", !.called = TRUE,
                   !.response = served(HandlerResult, r.headers, r.path)]

\* credentials a client can send: none, junk, a token the server returned,
\* that token re-signed with a key the server does not hold, and that token
\* with its expiry pushed out under the old signature
resign(token) == [token EXCEPT !.sig = rs256(ForeignKey, token.claims)]
extend(token) ==
    [token EXCEPT !.claims = json_dumps([json_loads(token.claims) EXCEPT !.exp = MaxTime + 2])]
Credentials ==
    {NO_TOKEN, Garbage} \cup issuedTokens
        \cup {resign(t) : t \in issuedTokens} \cup {extend(t) : t \in issuedTokens}

HeaderSets ==
    { [host |-> "server", accept |-> <<"text/html", "application/xhtml+xml">>],
      [host |-> "server", accept |-> <<"application/json">>],
      [host |-> "server"] }

\* the protected endpoints declared with router(): path, response_class and
\* the requirement handed over as `permissions` (the last one has no dimension)
Endpoints ==
    { [path |-> "/admin", response_class |-> "HTMLResponse",
       permissions |-> [groups |-> <<"administrators">>]],
      [path |-> "/data", response_class |-> "JSONResponse",
       permissions |-> [users |-> <<"carol">>, roles |-> <<"auditor", "admin">>]],
      [path |-> "/open", response_class |-> "JSONResponse",
       permissions |-> [x \in {} |-> <<>>]] }

\* a request arrives at mock_function and runs to `await Tokens.get` or to
\* its response
RequestDecode(token, headers, endpoint) ==
    /\ req.pc = "idle"
    /\ req' = mock_function_decode(token, headers, endpoint.response_class,
                                   endpoint.permissions, endpoint.path)
    /\ ret' = NoReturn
    /\ UNCHANGED <<now, privkey, tokens, nextId, issuedTokens, issue, revoke, cleanup, calc, Users, oauth, fed, files, boot>>

\* the request resumes after `await Tokens.get` and runs to its response
RequestCheck ==
    /\ req.pc = "decoded"
    /\ req' = mock_function_check(req, tokens)
    /\ ret' = NoReturn
    /\ UNCHANGED <<now, privkey, tokens, nextId, issuedTokens, issue, revoke, cleanup, calc, Users, oauth, fed, files, boot>>

\* the response reaches the client
RequestDone ==
    /\ req.pc = "done"
    /\ req' = ReqIdle
    /\ ret' = NoReturn
    /\ UNCHANGED <<now, privkey, tokens, nextId, issuedTokens, issue, revoke, cleanup, calc, Users, oauth, fed, files, boot>>

\* ------------------------------------------------ detect_token_in_cookie
\* the value of the token cookie that marks a login as required
INVALID == [raw |-> "INVALID"]

\* auth_ind = None; list indices count from 0
NoIndex == 0 - 1

\* the value of an authorization header: f"bearer {token}"
Bearer(token) == [scheme |-> "bearer", token |-> token]

\* `"authorization" in header[0].decode()` and `"cookie" in header[0].decode()`
\* for the header names a request is sent with
AuthLike(name) == name \in {"authorization", "proxy-authorization"}
CookieLike(name) == name = "cookie"

\* `if token_in_cookie`
TokenGiven(token) == token # None /\ token # [raw |-> ""]

\* RedirectResponse(url), and the answer of the login route to which call_next
\* hands a request for /login
RedirectResponse(url) == [status |-> 307, body |-> "redirect", cookies |-> {}, detail |-> <<url>>]
LoginRoute == [status |-> 200, body |-> "login_route", cookies |-> {}, detail |-> <<>>]

\* lines 126-130 over the cookies of one header; a cookie is the list of the
\* parts cookie.split("=") gives, and `key, value = ...` needs exactly two
RECURSIVE cookies_loop(_, _)
cookies_loop(cookies, token_in_cookie) ==
    IF cookies = <<>> THEN Return(token_in_cookie)
    ELSE IF Len(Head(cookies)) # 2 THEN Raise(Exc("ValueError"))
    ELSE cookies_loop(Tail(cookies),
                      IF Head(cookies)[1] = "token" THEN Head(cookies)[2]
                      ELSE token_in_cookie)

\* lines 122-130: enumerate(request_dict["headers"]), i being the list index + 1
RECURSIVE headers_loop(_, _, _, _)
headers_loop(headers, i, auth_ind, token_in_cookie) ==
    IF i > Len(headers)
    THEN Return([auth_ind |-> auth_ind, token_in_cookie |-> token_in_cookie])
    ELSE LET header == headers[i]
             found == IF CookieLike(header[1])
                      THEN cookies_loop(header[2], token_in_cookie)
                      ELSE Return(token_in_cookie)
         IN  IF found.kind = "raise" THEN found
             ELSE headers_loop(headers, i + 1,
                               IF AuthLike(header[1]) THEN i - 1 ELSE auth_ind,
                               found.value)

\* list.pop(ind), ind counted from 0
pop(list, ind) == [j \in 1..(Len(list) - 1) |-> IF j <= ind THEN list[j] ELSE list[j + 1]]

\* line 132: `if auth_ind:`
auth_header_found(auth_ind) == auth_ind # NoIndex /\ auth_ind # 0

CallNext(headers) == [kind |-> "call_next", headers |-> headers]

\* lines 115-146: the redirect returned, or the headers call_next is given,
\* or the exception raised
detect_token_in_cookie(request) ==
    LET scan == headers_loop(request.headers, 1, NoIndex, None)
    IN  IF scan.kind = "raise" THEN scan
        ELSE LET auth_ind == scan.value.auth_ind
                 token_in_cookie == scan.value.token_in_cookie
             IN  IF TokenGiven(token_in_cookie) /\ token_in_cookie # INVALID
                 THEN LET list == IF auth_header_found(auth_ind)
                                  THEN pop(request.headers, auth_ind)
                                  ELSE request.headers
                      IN  IF request.path # "/login"
                          THEN CallNext(Append(list, <<"authorization", Bearer(token_in_cookie)>>))
                          ELSE [kind |-> "redirect", response |-> RedirectResponse("/logout")]
                 ELSE IF request.path # "/login"
                 THEN CallNext(Append(request.headers,
                          <<"authorization",
                            Bearer(IF ~TokenGiven(token_in_cookie) THEN NO_TOKEN
                                   ELSE token_in_cookie)>>))
                 ELSE CallNext(request.headers)

\* OAuth2PasswordBearer: the token of the first authorization header, which
\* must be a bearer one
oauth2_scheme(headers) ==
    IF \A i \in DOMAIN headers : headers[i][1] # "authorization"
    THEN Raise(HTTPException(401, <<"Not authenticated">>))
    ELSE LET first == CHOOSE i \in DOMAIN headers :
                          /\ headers[i][1] = "authorization"
                          /\ \A j \in 1..(i - 1) : headers[j][1] # "authorization"
         IN  IF headers[first][2].scheme # "bearer"
             THEN Raise(HTTPException(401, <<"Not authenticated">>))
             ELSE Return(headers[first][2].token)

\* dict(request.headers) for the headers mock_function reads
headers_dict(headers) ==
    [n \in {headers[i][1] : i \in DOMAIN headers} \cap {"host", "accept"} |->
        headers[CHOOSE i \in DOMAIN headers : headers[i][1] = n][2]]

\* the requests a browser or a client sends: a cookie header or none, an
\* authorization header or none, before or after the other headers
CookieHeaders(tokenvalues) ==
    {<<"cookie", <<<<"token", t>>, <<"ref", [raw |-> "/admin"]>>>>>> : t \in tokenvalues}
        \cup {<<"cookie", <<<<"ref", [raw |-> "/admin"]>>>>>>,
              <<"cookie", <<<<"prefs", [raw |-> "a"], [raw |-> "b"]>>>>>>}
HeaderLists(tokenvalues, bearers) ==
    LET accept == <<"accept", <<"application/json">>>>
    IN  {<<accept>>}
        \cup {<<accept, c>> : c \in CookieHeaders(tokenvalues)}
        \cup {<<<<"authorization", Bearer(b)>>, accept>> : b \in bearers}
        \cup {<<<<"authorization", Bearer(b)>>, accept, c>> :
                 b \in bearers, c \in CookieHeaders(tokenvalues)}
        \cup {<<accept, <<"authorization", Bearer(b)>>, c>> :
                 b \in bearers, c \in CookieHeaders(tokenvalues)}
        \cup {<<accept, <<"proxy-authorization", Bearer(b)>>, c>> :
                 b \in bearers, c \in CookieHeaders(tokenvalues)}
RawRequests ==
    [path : {"/login", "/admin", "/data"},
     headers : HeaderLists({INVALID, [raw |-> ""]} \cup issuedTokens, {Garbage} \cup issuedTokens)]

\* a request passes detect_token_in_cookie, then the token dependency, then
\* mock_function up to `await Tokens.get` or to its response
CookieRequest(request) ==
    /\ req.pc = "idle"
    /\ LET out == detect_token_in_cookie(request)
           headers == headers_dict(request.headers)
           answered(response) ==
               [ReqIdle EXCEPT !.pc = "done", !.headers = headers, !.path = request.path,
                               !.response = response]
       IN  /\ ret' = [op |-> "detect_token_in_cookie", request |-> request, result |-> out]
           /\ req' = CASE out.kind = "raise" -> answered(ServerError)
                       [] out.kind = "redirect" -> answered(out.response)
                       [] out.kind = "call_next" /\ request.path = "/login" ->
                            answered(LoginRoute)
                       [] OTHER ->
                            LET endpoint == CHOOSE e \in Endpoints : e.path = request.path
                                token == oauth2_scheme(out.headers)
                            IN  IF token.kind = "raise"
                                THEN answered(served(token.exc, headers, request.path))
                                ELSE mock_function_decode(token.value, headers,
                                         endpoint.response_class, endpoint.permissions,
                                         endpoint.path)
    /\ UNCHANGED <<now, privkey, tokens, nextId, issuedTokens, issue, revoke, cleanup, calc,
                   Users, oauth, fed, files, boot>>

\* ---------------------------------------------------- parse_permissions
\* an optional list argument: None, or the list given
Given(list) == [list |-> list]
\* `if x:` for an optional list argument
Truthy(arg) == arg # None /\ arg.list # <<>>
\* `if not d:` for an optional dict argument
EmptyOrNone(d) == d = None \/ DOMAIN d = {}

\* parse_permissions with the two defaults taken in the other order
parse_permissions_server_first(users, groups, roles, actions, default_permissions, DEFAULT_PERMISSION) ==
    LET args == [users |-> users, groups |-> groups, roles |-> roles, actions |-> actions]
        permissions == [d \in {k \in Dims : Truthy(args[k])} |-> args[d].list]
    IN  IF DOMAIN permissions = {}
        THEN IF EmptyOrNone(DEFAULT_PERMISSION) THEN default_permissions
             ELSE DEFAULT_PERMISSION
        ELSE permissions

\* lines 854-879; DEFAULT_PERMISSION is self.DEFAULT_PERMISSION
parse_permissions(users, groups, roles, actions, default_permissions, DEFAULT_PERMISSION) ==
    LET args == [users |-> users, groups |-> groups, roles |-> roles, actions |-> actions]
        permissions == [d \in {k \in Dims : Truthy(args[k])} |-> args[d].list]
    IN  IF DOMAIN permissions = {}
        THEN IF EmptyOrNone(default_permissions) THEN DEFAULT_PERMISSION
             ELSE default_permissions
        ELSE permissions

\* -------------------------------------------------- get_user_permissions
\* a python str held in a list that is also searched for model objects
Str(s) == [str |-> s]

\* d[k] = v
dict_set(d, k, v) == [x \in DOMAIN d \cup {k} |-> IF x = k THEN v ELSE d[x]]

\* if k not in d: d[k] = []
\* if obj not in d[k]: d[k].append(name)
append_if_absent(d, k, obj, name) ==
    LET d1 == IF k \in DOMAIN d THEN d ELSE dict_set(d, k, <<>>)
    IN  IF ~InList(obj, d1[k]) THEN dict_set(d1, k, Append(d1[k], Str(name))) ELSE d1

\* lines 666-671
RECURSIVE actions_loop(_, _)
actions_loop(actions, permissions) ==
    IF actions = <<>> THEN permissions
    ELSE actions_loop(Tail(actions),
            append_if_absent(permissions, "actions", Head(actions), Head(actions).action))

\* lines 665-675
RECURSIVE roles_loop(_, _)
roles_loop(roles, permissions) ==
    IF roles = <<>> THEN permissions
    ELSE roles_loop(Tail(roles),
            append_if_absent(actions_loop(Head(roles).actions, permissions),
                             "roles", Head(roles), Head(roles).role))

\* lines 664-679
RECURSIVE groups_loop(_, _)
groups_loop(groups, permissions) ==
    IF groups = <<>> THEN permissions
    ELSE groups_loop(Tail(groups),
            append_if_absent(roles_loop(Head(groups).roles, permissions),
                             "groups", Head(groups), Head(groups).group_name))

\* lines 657-681; the lists of the result hold plain strings
get_user_permissions(user) ==
    LET permissions == dict_set(groups_loop(user.groups, [x \in {} |-> <<>>]),
                                "users", <<Str(user.username)>>)
    IN  [k \in DOMAIN permissions |->
            [i \in 1..Len(permissions[k]) |-> permissions[k][i].str]]

\* ------------------------------------------------------ validate_user_pw

\* bcrypt.hashpw(pw, salt): the hash carries the salt it was made with
hashpw(pw, salt) == [bcrypt |-> pw, salt |-> salt]

\* encode_password (lines 544-546)
encode_password(pw) == hashpw(pw, "salt")

\* bcrypt.checkpw(pw, hashed): "True", "False", or the exception raised:
\* AttributeError where .encode() is called on None, ValueError (invalid
\* salt) where the stored text is no bcrypt hash
checkpw(pw, hashed) ==
    IF pw = None \/ hashed = None THEN "AttributeError"
    ELSE IF "bcrypt" \notin DOMAIN hashed THEN "ValueError"
    ELSE IF hashed = hashpw(pw.str, hashed.salt) THEN "True" ELSE "False"

\* is_password_valid that accepts every password
is_password_valid_always(encoded, input_password) == "True"

\* is_password_valid (lines 548-550)
is_password_valid(encoded, input_password) == checkpw(input_password, encoded)

\* validate_user_pw from `if user:` on (lines 637-655), `user` being what
\* `await Users.get(username=username)` returned
validate_user_pw(user, password) ==
    IF user = None THEN Return(None)
    ELSE IF user.account_type = "service"
    THEN Raise(HTTPException(401, <<"unable to login with service accounts">>))
    ELSE CASE is_password_valid(user.password, password) = "False" -> Return(None)
           [] is_password_valid(user.password, password) = "True" -> Return(user)
           [] is_password_valid(user.password, password) = "ValueError" -> Return(user)
           [] OTHER -> Return(None)

\* the Users table the login form is checked against: a user, a service
\* account, a user whose stored password is no bcrypt hash, and a user with
\* no stored password
Account(username, account_type, password) ==
    [model |-> "Users", username |-> username, account_type |-> account_type,
     password |-> password, groups |-> <<>>]
Accounts ==
    { Account("alice", "user", encode_password("pw1")),
      Account("svc", "service", encode_password("pw1")),
      Account("mallory", "user", [text |-> "not-a-bcrypt-hash"]),
      Account("nopw", "user", None) }

\* Users.get(username=...): the record, or None
Users_get(table, username) ==
    IF \E u \in table : u.username = username
    THEN CHOOSE u \in table : u.username = username
    ELSE None

Usernames == {"alice", "svc", "mallory", "nopw", "nobody"}
Passwords == {[str |-> "pw1"], [str |-> "pw2"], [str |-> ""], None}

\* ------------------------------------------- calls of the pure helpers
\* the longest list of groups of a user
MaxGroups == 2

Action(a) == [model |-> "Actions", action |-> a]
Role(r, actions) == [model |-> "Roles", role |-> r, actions |-> actions]
Group(g, roles) == [model |-> "Groups", group_name |-> g, roles |-> roles]
R1 == Role("R1", <<Action("A1"), Action("A2")>>)
R2 == Role("R2", <<Action("A2")>>)
R3 == Role("R3", <<>>)
GroupObjects ==
    { Group("G1", <<R1>>), Group("G2", <<R2>>), Group("G3", <<R1, R2>>),
      Group("G4", <<>>), Group("G5", <<R3>>) }

\* lists of distinct groups, at most MaxGroups long
RECURSIVE GroupLists(_)
GroupLists(n) ==
    IF n = 0 THEN {<<>>}
    ELSE GroupLists(n - 1) \cup
         {Append(l, g) : l \in {x \in GroupLists(n - 1) : Len(x) = n - 1},
                         g \in GroupObjects} 

UserObjects ==
    {[model |-> "Users", username |-> "carol", account_type |-> "user", groups |-> l] :
        l \in {x \in GroupLists(MaxGroups) : \A i, j \in 1..Len(x) : i # j => x[i] # x[j]}}

\* every dict over a subset of Dims with values in `lists`
DictsOver(lists) == UNION {[D -> lists] : D \in SUBSET Dims}

RequirementInputs == DictsOver({<<"a">>, <<"b", "a">>}) \cup {[groups |-> <<>>]}
SnapshotInputs == DictsOver({<<"a">>, <<"c", "b">>})
OptionalLists == {None, Given(<<>>), Given(<<"a">>)}
RouterDefaults == {None, [x \in {} |-> <<>>], [roles |-> <<"staff">>]}
\* line 58: the default of default_permission, and a configured one
ServerDefaults == {[groups |-> <<"administrators">>], [users |-> <<"root">>]}

Calls ==
    {[op |-> "parse_permissions", users |-> u, groups |-> g, roles |-> r,
      actions |-> a, default_permissions |-> d, DEFAULT_PERMISSION |-> s] :
        u \in OptionalLists, g \in OptionalLists, r \in OptionalLists,
        a \in OptionalLists, d \in RouterDefaults, s \in ServerDefaults}
    \cup
    {[op |-> "get_user_permissions", user |-> u] : u \in UserObjects}
    \cup
    {[op |-> "permission_check", permissions |-> p, token_permissions |-> t,
      response_class |-> c] :
        p \in RequirementInputs, t \in SnapshotInputs, c \in {"JSONResponse"}}
    \cup
    {[op |-> "validate_user_pw", username |-> u, password |-> pw] :
        u \in Usernames, pw \in Passwords}

CallParsePermissions ==
    /\ calc.op = "parse_permissions"
    /\ "result" \notin DOMAIN calc
    /\ calc' = [op |-> "parse_permissions", users |-> calc.users,
                groups |-> calc.groups, roles |-> calc.roles, actions |-> calc.actions,
                default_permissions |-> calc.default_permissions,
                DEFAULT_PERMISSION |-> calc.DEFAULT_PERMISSION,
                result |-> parse_permissions(calc.users, calc.groups, calc.roles,
                              calc.actions, calc.default_permissions,
                              calc.DEFAULT_PERMISSION)]
    /\ UNCHANGED <<now, privkey, tokens, nextId, issuedTokens, issue, revoke, cleanup, req, ret, Users, oauth, fed, files, boot>>

CallGetUserPermissions ==
    /\ calc.op = "get_user_permissions"
    /\ "result" \notin DOMAIN calc
    /\ calc' = [op |-> "get_user_permissions", user |-> calc.user,
                result |-> get_user_permissions(calc.user)]
    /\ UNCHANGED <<now, privkey, tokens, nextId, issuedTokens, issue, revoke, cleanup, req, ret, Users, oauth, fed, files, boot>>

\* validate_user_pw(username, password) against the table Accounts
CallValidateUserPw ==
    /\ calc.op = "validate_user_pw"
    /\ "result" \notin DOMAIN calc
    /\ calc' = [op |-> "validate_user_pw", username |-> calc.username,
                password |-> calc.password,
                result |-> validate_user_pw(Users_get(Accounts, calc.username),
                                            calc.password)]
    /\ UNCHANGED <<now, privkey, tokens, nextId, issuedTokens, issue, revoke, cleanup, req, ret, Users, oauth, fed, files, boot>>

\* mock_function from `await Tokens.get` on, for a decoded token whose
\* tracking record is in the table
CallPermissionCheck ==
    /\ calc.op = "permission_check"
    /\ "result" \notin DOMAIN calc
    /\ LET permissions == calc.token_permissions
           record == [model |-> "Tokens", token_id |-> 1, username |-> "carol",
                      issued |-> isoformat(0), expiration |-> isoformat(1),
                      token |-> permissions]
           r == [ReqIdle EXCEPT
                    !.pc = "decoded",
                    !.headers = [host |-> "server", accept |-> <<"application/json">>],
                    !.response_class = calc.response_class,
                    !.permissions = calc.permissions,
                    !.path = "/data",
                    !.claims = [token_id |-> 1, permissions |-> permissions, exp |-> 1]]
       IN calc' = [op |-> "permission_check", permissions |-> calc.permissions,
                   token_permissions |-> calc.token_permissions,
                   response_class |-> calc.response_class,
                   result |-> mock_function_check(r, Tokens_create(tokens, record))]
    /\ UNCHANGED <<now, privkey, tokens, nextId, issuedTokens, issue, revoke, cleanup, req, ret, Users, oauth, fed, files, boot>>

\* ----------------------------------------------- generate_google_oauth_token
FedIdle == [pc |-> "idle"]

\* issue_token(permissions): minutes=60 by default
DefaultMinutes == 60

GoogleClientId == "google-client-id"
OauthConfig(provider, client_id, enabled, default_groups) ==
    [model |-> "OauthConfig", provider |-> provider, client_id |-> client_id,
     enabled |-> enabled, default_groups |-> default_groups]

\* OauthConfig.filter(provider=...): the rows of that provider, in table order
OauthConfig_filter(table, provider) == SelectSeq(table, LAMBDA c : c.provider = provider)

\* Users.filter(email=...): emails are unique
Users_filter(table, email) ==
    IF \E u \in table : u.email = email
    THEN <<CHOOSE u \in table : u.email = email>>
    ELSE <<>>

FedUser(email, groups) ==
    [model |-> "Users", username |-> email, email |-> email, account_type |-> "user",
     password |-> encode_password(""), groups |-> groups]

\* a Google ID token: who signed it, for which client, and its claims
IdToken(sig, aud, claims) == [sig |-> sig, aud |-> aud, claims |-> claims]
Claims(email, email_verified) ==
    [email |-> email, email_verified |-> email_verified,
     given_name |-> "G", family_name |-> "F"]

\* id_token.verify_oauth2_token(auth_code, requests.Request(), client_id)
verify_oauth2_token(auth_code, client_id) ==
    IF auth_code.sig # "google" \/ auth_code.aud # client_id
    THEN Raise(Exc("ValueError"))
    ELSE Return(auth_code.claims)

\* the email check with the verification skipped: email_verified is not read
check_email_unverified(idinfo) ==
    IF "email" \notin DOMAIN idinfo THEN Raise(Exc("KeyError"))
    ELSE IF idinfo.email # "" THEN Return(idinfo.email)
    ELSE Raise(HTTPException(400, <<"Unable to validate social login">>))

\* lines 595-601: if idinfo["email"] and idinfo["email_verified"]
check_email(idinfo) ==
    IF "email" \notin DOMAIN idinfo THEN Raise(Exc("KeyError"))
    ELSE IF idinfo.email = ""
    THEN Raise(HTTPException(400, <<"Unable to validate social login">>))
    ELSE IF "email_verified" \notin DOMAIN idinfo THEN Raise(Exc("KeyError"))
    ELSE IF idinfo.email_verified THEN Return(idinfo.email)
    ELSE Raise(HTTPException(400, <<"Unable to validate social login">>))

\* lines 590-607: the try block; whatever is raised inside leaves as the
\* same HTTPException
validate_social_login(auth_code, client_id) ==
    LET idinfo == verify_oauth2_token(auth_code, client_id)
        email == IF idinfo.kind = "return" THEN check_email(idinfo.value) ELSE idinfo
    IN  IF email.kind = "raise"
        THEN Raise(HTTPException(400, <<"Unable to validate social login">>))
        ELSE Return([idinfo |-> idinfo.value, email |-> email.value])

\* jsonable_encoder(body_bytes): the text of the body
jsonable_encoder(body_bytes) == body_bytes.bytes

\* lines 577-607 on the rows OauthConfig.filter gave: the exception raised,
\* or idinfo and email
social_login(google_oauth, call) ==
    IF google_oauth = <<>> THEN Raise(Exc("GoogleOauthNotEnabledOrConfigured"))
    ELSE IF call.auth_code = None /\ call.request.headers # "client"
    THEN Raise(Exc("GoogleOauthHeaderMalformed"))
    ELSE validate_social_login(IF call.auth_code = None
                               THEN jsonable_encoder(call.request.body)
                               ELSE call.auth_code,
                               google_oauth[1].client_id)

\* the ways generate_google_oauth_token is called
Request(header, body) == [headers |-> header, body |-> [bytes |-> body]]
IdTokens ==
    { IdToken("google", GoogleClientId, Claims("dana@x", TRUE)),
      IdToken("google", GoogleClientId, Claims("erin@x", TRUE)),
      IdToken("google", GoogleClientId, Claims("erin@x", FALSE)),
      IdToken("google", GoogleClientId, Claims("", TRUE)),
      IdToken("google", GoogleClientId, [sub |-> "erin", email_verified |-> TRUE]),
      IdToken("google", GoogleClientId, [email |-> "erin@x"]),
      IdToken("forged", GoogleClientId, Claims("erin@x", TRUE)),
      IdToken("google", "other-client-id", Claims("erin@x", TRUE)) }
FedCalls ==
    {[auth_code |-> t, request |-> None] : t \in IdTokens}
    \cup {[auth_code |-> None, request |-> Request(h, t)] :
             h \in {"client", "absent"}, t \in IdTokens}

\* the OauthConfig table and the Users table a deployment may hold
OauthTables ==
    { <<>>,
      <<OauthConfig("google", GoogleClientId, TRUE, <<Group("G1", <<R1>>)>>)>>,
      <<OauthConfig("google", GoogleClientId, FALSE, <<Group("G1", <<R1>>)>>)>>,
      <<OauthConfig("github", "github-client-id", TRUE, <<>>)>>,
      <<OauthConfig("github", "github-client-id", TRUE, <<>>),
        OauthConfig("google", GoogleClientId, TRUE, <<>>)>> }
UserTables == { {}, {FedUser("dana@x", <<Group("G2", <<R2>>)>>)} }

\* register_user(...): the account is created active, or created pending
\* its activation (with or without a row in Users), or refused
RegisterOutcomes == {"created", "pending", "pending_listed", "refused"}
Text(parts) == [text |-> parts]
register_user(table, user_info, groups, outcome) ==
    CASE outcome = "created" ->
           [Users |-> table \cup {FedUser(user_info.email, groups)},
            result |-> Text(<<user_info.email, " created">>)]
      [] outcome = "pending" ->
           [Users |-> table,
            result |-> Text(<<"Activation email sent to ", user_info.email>>)]
      [] outcome = "pending_listed" ->
           [Users |-> table \cup {FedUser(user_info.email, groups)},
            result |-> Text(<<"Activation email sent to ", user_info.email>>)]
      [] OTHER ->
           [Users |-> table, result |-> Text(<<"registration is disabled">>)]

\* "Activation email sent to" in result
activation_pending(result) ==
    \E i \in DOMAIN result.text : result.text[i] = "Activation email sent to "

\* lines 624-625 with the test left out
pending_returned_never(result) == FALSE

\* lines 624-625: if "Activation email sent to" in result: return result
pending_returned(result) == activation_pending(result)

FedReturn(call, result) ==
    [op |-> "generate_google_oauth_token", call |-> call, result |-> result]

\* line 575: google_oauth = await OauthConfig.filter(provider="google")
FedFilter(call) ==
    /\ fed.pc = "idle"
    /\ fed' = [pc |-> "filtered", call |-> call,
               google_oauth |-> OauthConfig_filter(oauth, "google")]
    /\ ret' = NoReturn
    /\ UNCHANGED <<now, privkey, tokens, nextId, issuedTokens, issue, revoke, cleanup, req,
                   calc, Users, oauth, files, boot>>

\* lines 577-609: up to user = await Users.filter(email=email)
FedVerify ==
    /\ fed.pc = "filtered"
    /\ LET login == social_login(fed.google_oauth, fed.call)
       IN  IF login.kind = "raise"
           THEN /\ fed' = FedIdle
                /\ ret' = FedReturn(fed.call, login)
           ELSE /\ fed' = [pc |-> "looked", call |-> fed.call,
                           oauth_config |-> fed.google_oauth[1],
                           idinfo |-> login.value.idinfo, email |-> login.value.email,
                           user |-> Users_filter(Users, login.value.email)]
                /\ ret' = NoReturn
    /\ UNCHANGED <<now, privkey, tokens, nextId, issuedTokens, issue, revoke, cleanup, req,
                   calc, Users, oauth, files, boot>>

\* lines 611-623: result = await self.register_user({...})
FedRegister(outcome) ==
    /\ fed.pc = "looked"
    /\ fed.user = <<>>
    /\ IF {"given_name", "family_name"} \subseteq DOMAIN fed.idinfo
       THEN LET reg == register_user(Users, [email |-> fed.email],
                                     fed.oauth_config.default_groups, outcome)
            IN /\ Users' = reg.Users
               /\ fed' = [pc |-> "registered", call |-> fed.call, email |-> fed.email,
                          result |-> reg.result]
               /\ ret' = NoReturn
       ELSE /\ Users' = Users
            /\ fed' = FedIdle
            /\ ret' = FedReturn(fed.call, Raise(Exc("KeyError")))
    /\ UNCHANGED <<now, privkey, tokens, nextId, issuedTokens, issue, revoke, cleanup, req,
                   calc, oauth, files, boot>>

\* lines 624-628: the pending result is returned, or the user is read again
FedRegistered ==
    /\ fed.pc = "registered"
    /\ IF pending_returned(fed.result)
       THEN /\ fed' = FedIdle
            /\ ret' = FedReturn(fed.call, Return(fed.result))
       ELSE /\ fed' = [pc |-> "looked_again", call |-> fed.call, email |-> fed.email,
                       user |-> Users_filter(Users, fed.email)]
            /\ ret' = NoReturn
    /\ UNCHANGED <<now, privkey, tokens, nextId, issuedTokens, issue, revoke, cleanup, req,
                   calc, Users, oauth, files, boot>>

\* lines 630-632 up to Tokens.create inside issue_token; user[0] of an empty
\* list is an IndexError
FedIssueCreate ==
    /\ \/ fed.pc = "looked" /\ fed.user # <<>>
       \/ fed.pc = "looked_again"
    /\ IF fed.user = <<>>
       THEN /\ fed' = FedIdle
            /\ ret' = FedReturn(fed.call, Raise(Exc("IndexError")))
            /\ UNCHANGED <<tokens, nextId>>
       ELSE LET permissions == get_user_permissions(fed.user[1])
            IN /\ tokens' = Tokens_create(tokens,
                               issue_record(nextId, permissions, DefaultMinutes, now))
               /\ nextId' = nextId + 1
               /\ fed' = [pc |-> "created", call |-> fed.call, token_id |-> nextId,
                          permissions |-> permissions]
               /\ ret' = NoReturn
    /\ UNCHANGED <<now, privkey, issuedTokens, issue, revoke, cleanup, req, calc, Users,
                   oauth, files, boot>>

\* issue_token from jwt.generate_jwt on, and the return of its token
FedIssueSign ==
    /\ fed.pc = "created"
    /\ LET token == generate_jwt(issue_payload(fed.token_id, fed.permissions),
                                 privkey, DefaultMinutes, now)
       IN /\ ret' = FedReturn(fed.call, Return(token))
          /\ issuedTokens' = issuedTokens \cup {token}
    /\ fed' = FedIdle
    /\ UNCHANGED <<now, privkey, tokens, nextId, issue, revoke, cleanup, req, calc, Users,
                   oauth, files, boot>>

\* the groups a user can be given, with their roles and the roles' actions
GraphStates ==
    { <<>>,
      <<Group("administrators", <<Role("auditor", <<Action("read")>>)>>)>>,
      <<Group("administrators", <<>>)>>,
      <<Group("staff", <<Role("clerk", <<Action("read")>>)>>)>> }

\* the authorization graph is edited: the user's groups, their roles and
\* the roles' actions are replaced
GraphChange(groups) ==
    /\ Users' = {[u EXCEPT !.groups = groups] : u \in Users}
    /\ Users' # Users
    /\ ret' = NoReturn
    /\ UNCHANGED <<now, privkey, tokens, nextId, issuedTokens, issue, revoke, cleanup, req,
                   calc, oauth, fed, files, boot>>

\* ---------------------------------------------------------------- key_setup
\* at most MaxSetups constructions of the server (runs of key_setup)
MaxSetups == 2

\* the kids generate_random_string(56) gives, in the order it gives them
GeneratedKeys == <<"kid_a", "kid_b", "kid_c", "kid_d">>

\* a path on disk: no file, a file with a text, or a file that open() may
\* neither read nor write (PermissionError)
Absent == [state |-> "absent"]
File(text) == [state |-> "file", text |-> text]
Locked(text) == [state |-> "locked", text |-> text]

\* JWK.export_private(), JWK.export_public() and a text that is no JWK
export_private(key) == [private |-> key]
export_public(key) == [public |-> key]
CorruptText == [garbage |-> "not json"]

\* with open(path, "r") as k: k.readline()
open_read(file) ==
    CASE file.state = "absent" -> Raise(Exc("FileNotFoundError"))
      [] file.state = "locked" -> Raise(Exc("PermissionError"))
      [] OTHER -> Return(file.text)

\* with open(path, "w") as k: k.write(text): the file afterwards
open_write(file, text) ==
    IF file.state = "locked" THEN Raise(Exc("PermissionError")) ELSE Return(File(text))

\* jwk.JWK.from_json(text)
from_json(text) ==
    IF "private" \in DOMAIN text THEN Return(text.private) ELSE Raise(Exc("InvalidJWKValue"))

\* key_setup (lines 273-304) on the files fs, `fresh` being the key
\* JWK.generate would make: the files afterwards, self._privkey, and None
\* returned or the exception that leaves key_setup
key_setup(fs, fresh) ==
    LET read == open_read(fs.key)
        loaded == IF read.kind = "return" THEN from_json(read.value) ELSE read
        key == IF loaded.kind = "return" THEN loaded.value ELSE fresh
        written == IF loaded.kind = "return" THEN Return(fs.key)
                   ELSE open_write(fs.key, export_private(fresh))
    IN  IF written.kind = "raise"
        THEN [files |-> fs, privkey |-> key, result |-> written]
        ELSE LET fs1 == [fs EXCEPT !.key = written.value]
                 pubread == open_read(fs.pub)
                 pubwritten == IF pubread.kind = "return" THEN Return(fs.pub)
                               ELSE open_write(fs.pub, export_public(key))
             IN  IF pubwritten.kind = "raise"
                 THEN [files |-> fs1, privkey |-> key, result |-> pubwritten]
                 ELSE [files |-> [fs1 EXCEPT !.pub = pubwritten.value],
                       privkey |-> key, result |-> Return(None)]

\* no server object, hence no self._privkey
NoKey == "no_kid"

\* EasyAuthServer(...) is constructed with no private_key argument: key_setup
\* runs; an exception leaving it leaves no server
KeySetup ==
    /\ boot.state = "down"
    /\ LET out == key_setup(files, GeneratedKeys[boot.setups + 1])
       IN /\ files' = out.files
          /\ privkey' = IF out.result.kind = "return" THEN out.privkey ELSE NoKey
          /\ boot' = [state |-> IF out.result.kind = "return" THEN "up" ELSE "failed",
                      setups |-> boot.setups + 1]
          /\ ret' = [op |-> "key_setup", result |-> out.result, privkey |-> out.privkey]
    /\ UNCHANGED <<now, tokens, nextId, issuedTokens, issue, revoke, cleanup, req, calc,
                   Users, oauth, fed>>

\* the process ends, and a running call of issue_token with it
Shutdown ==
    /\ boot.state \in {"up", "failed"}
    /\ boot' = [boot EXCEPT !.state = "down"]
    /\ privkey' = NoKey
    /\ issue' = IssueIdle
    /\ ret' = NoReturn
    /\ UNCHANGED <<now, tokens, nextId, issuedTokens, revoke, cleanup, req, calc,
                   Users, oauth, fed, files>>

\* what can be found at the two paths when the server starts
KeyFileStates ==
    {Absent, File(export_private(ServerKey)), File(CorruptText),
     Locked(export_private(ServerKey))}
PubFileStates ==
    {Absent, File(export_public(ServerKey)), File(export_public(ForeignKey))}

\* while the server is down the files are replaced, damaged or removed
FileChange(key, pub) ==
    /\ boot.state = "down"
    /\ files' = [key |-> key, pub |-> pub]
    /\ files' # files
    /\ ret' = NoReturn
    /\ UNCHANGED <<now, privkey, tokens, nextId, issuedTokens, issue, revoke, cleanup, req,
                   calc, Users, oauth, fed, boot>>

\* ------------------------------------------------------ the specification
CalcIdle == [op |-> "none"]

Init ==
    /\ now = 0
    /\ privkey = ServerKey
    /\ tokens = [id \in {} |-> None]
    /\ nextId = 1
    /\ issuedTokens = {}
    /\ issue = IssueIdle
    /\ revoke = [p \in RevokeProcs |-> RevokeIdle]
    /\ cleanup = CleanupIdle
    /\ req = ReqIdle
    /\ ret = NoReturn
    /\ calc = CalcIdle
    /\ Users = {}
    /\ oauth = <<>>
    /\ fed = FedIdle
    /\ files = [key |-> File(export_private(ServerKey)), pub |-> File(export_public(ServerKey))]
    /\ boot = [state |-> "up", setups |-> 0]

\* the token store: issue_token, revoke_token, token_cleanup and the clock,
\* interleaved at every await
Next ==
    \/ Tick
    \/ \E permissions \in StoreSnapshots, lifetime \in Lifetimes :
          nextId <= MaxTokens /\ IssueCreate(permissions, lifetime)
    \/ IssueSign
    \/ \E token_id \in KnownIds : RevokeGet("r1", token_id)
    \/ RevokeDelete("r1")
    \/ CleanupAll
    \/ CleanupStep
    \/ CleanupCount

Spec == Init /\ [][Next]_vars

\* issue_token for every snapshot and lifetime, interleaved with a caller of
\* revoke_token and the clock
NextIssue ==
    \/ Tick
    \/ \E permissions \in Snapshots, lifetime \in Lifetimes :
          nextId <= MaxTokens /\ IssueCreate(permissions, lifetime)
    \/ IssueSign
    \/ \E token_id \in KnownIds : RevokeGet("r1", token_id)
    \/ RevokeDelete("r1")

SpecIssue == Init /\ [][NextIssue]_vars

\* two callers of revoke_token interleaved with issue_token and the clock
NextRevoke ==
    \/ Tick
    \/ \E permissions \in StoreSnapshots, lifetime \in ShortLifetimes :
          nextId <= MaxTokens /\ IssueCreate(permissions, lifetime)
    \/ IssueSign
    \/ \E p \in RevokeProcs, token_id \in KnownIds : RevokeGet(p, token_id)
    \/ \E p \in RevokeProcs : RevokeDelete(p)

SpecRevoke == Init /\ [][NextRevoke]_vars

\* protected requests interleaved with issue_token, revoke_token and the clock
NextRequest ==
    \/ Tick
    \/ \E permissions \in Snapshots, lifetime \in ShortLifetimes :
          nextId <= MaxIssued /\ IssueCreate(permissions, lifetime)
    \/ IssueSign
    \/ \E token_id \in KnownIds : RevokeGet("r1", token_id)
    \/ RevokeDelete("r1")
    \/ \E token \in Credentials, headers \in HeaderSets, endpoint \in Endpoints :
          RequestDecode(token, headers, endpoint)
    \/ RequestCheck
    \/ RequestDone

SpecRequest == Init /\ [][NextRequest]_vars

\* clients that ask for JSON
JsonClients == {h \in HeaderSets : accepts_html(h) = "no"}

\* protected requests interleaved with issue_token, revoke_token,
\* token_cleanup and the clock
NextGrant ==
    \/ Tick
    \/ \E permissions \in StoreSnapshots, lifetime \in ShortLifetimes :
          nextId <= MaxIssued /\ IssueCreate(permissions, lifetime)
    \/ IssueSign
    \/ \E token_id \in KnownIds : RevokeGet("r1", token_id)
    \/ RevokeDelete("r1")
    \/ CleanupAll
    \/ CleanupStep
    \/ CleanupCount
    \/ \E token \in Credentials, headers \in JsonClients, endpoint \in Endpoints :
          RequestDecode(token, headers, endpoint)
    \/ RequestCheck
    \/ RequestDone

SpecGrant == Init /\ [][NextGrant]_vars

\* the pure helpers, each applied once to an input drawn by InitPure
InitPure ==
    /\ now = 0
    /\ privkey = ServerKey
    /\ tokens = [id \in {} |-> None]
    /\ nextId = 1
    /\ issuedTokens = {}
    /\ issue = IssueIdle
    /\ revoke = [p \in RevokeProcs |-> RevokeIdle]
    /\ cleanup = CleanupIdle
    /\ req = ReqIdle
    /\ ret = NoReturn
    /\ calc \in Calls
    /\ Users = {}
    /\ oauth = <<>>
    /\ fed = FedIdle
    /\ files = [key |-> File(export_private(ServerKey)), pub |-> File(export_public(ServerKey))]
    /\ boot = [state |-> "up", setups |-> 0]

NextPure ==
    \/ CallParsePermissions
    \/ CallGetUserPermissions
    \/ CallPermissionCheck
    \/ CallValidateUserPw

SpecPure == InitPure /\ [][NextPure]_vars

\* issue_token with its failures: a snapshot without users, a store that
\* refuses the record, a key that cannot sign
InitAtomic ==
    /\ now = 0
    /\ privkey \in {ServerKey, PublicOnlyKey}
    /\ tokens = [id \in {} |-> None]
    /\ nextId = 1
    /\ issuedTokens = {}
    /\ issue = IssueIdle
    /\ revoke = [p \in RevokeProcs |-> RevokeIdle]
    /\ cleanup = CleanupIdle
    /\ req = ReqIdle
    /\ ret = NoReturn
    /\ calc = CalcIdle
    /\ Users = {}
    /\ oauth = <<>>
    /\ fed = FedIdle
    /\ files = [key |-> File(export_private(ServerKey)), pub |-> File(export_public(ServerKey))]
    /\ boot = [state |-> "up", setups |-> 0]

NextAtomic ==
    \/ Tick
    \/ \E permissions \in Snapshots, lifetime \in Lifetimes :
          nextId <= MaxTokens /\ IssueCreate(permissions, lifetime)
    \/ \E permissions \in Snapshots \cup UserlessSnapshots, store_fails \in BOOLEAN :
          nextId <= MaxTokens /\ IssueCreateRaises(permissions, store_fails)
    \/ IssueSign
    \/ IssueSignRaises

SpecAtomic == InitAtomic /\ [][NextAtomic]_vars

\* a user logs in, the graph is edited, the token is used
VerifiedLogin == [auth_code |-> IdToken("google", GoogleClientId, Claims("dana@x", TRUE)),
                  request |-> None]

InitFrozen ==
    /\ now = 0
    /\ privkey = ServerKey
    /\ tokens = [id \in {} |-> None]
    /\ nextId = 1
    /\ issuedTokens = {}
    /\ issue = IssueIdle
    /\ revoke = [p \in RevokeProcs |-> RevokeIdle]
    /\ cleanup = CleanupIdle
    /\ req = ReqIdle
    /\ ret = NoReturn
    /\ calc = CalcIdle
    /\ Users \in {{FedUser("dana@x", g)} : g \in GraphStates}
    /\ oauth = <<OauthConfig("google", GoogleClientId, TRUE, <<>>)>>
    /\ fed = FedIdle
    /\ files = [key |-> File(export_private(ServerKey)), pub |-> File(export_public(ServerKey))]
    /\ boot = [state |-> "up", setups |-> 0]

NextFrozen ==
    \/ nextId <= MaxIssued /\ FedFilter(VerifiedLogin)
    \/ FedVerify
    \/ FedIssueCreate
    \/ FedIssueSign
    \/ \E groups \in GraphStates : GraphChange(groups)
    \/ \E token_id \in KnownIds : RevokeGet("r1", token_id)
    \/ RevokeDelete("r1")
    \/ \E token \in issuedTokens, headers \in JsonClients, endpoint \in Endpoints :
          RequestDecode(token, headers, endpoint)
    \/ RequestCheck
    \/ RequestDone

SpecFrozen == InitFrozen /\ [][NextFrozen]_vars

\* requests that pass the cookie middleware before the protected endpoint
NextCookie ==
    \/ Tick
    \/ \E permissions \in Snapshots, lifetime \in ShortLifetimes :
          nextId <= MaxIssued /\ IssueCreate(permissions, lifetime)
    \/ IssueSign
    \/ \E request \in RawRequests : CookieRequest(request)
    \/ RequestCheck
    \/ RequestDone

SpecCookie == Init /\ [][NextCookie]_vars

\* federated logins against every provider table
InitFed ==
    /\ now = 0
    /\ privkey = ServerKey
    /\ tokens = [id \in {} |-> None]
    /\ nextId = 1
    /\ issuedTokens = {}
    /\ issue = IssueIdle
    /\ revoke = [p \in RevokeProcs |-> RevokeIdle]
    /\ cleanup = CleanupIdle
    /\ req = ReqIdle
    /\ ret = NoReturn
    /\ calc = CalcIdle
    /\ Users \in UserTables
    /\ oauth \in OauthTables
    /\ fed = FedIdle
    /\ files = [key |-> File(export_private(ServerKey)), pub |-> File(export_public(ServerKey))]
    /\ boot = [state |-> "up", setups |-> 0]

NextFed ==
    \/ \E call \in FedCalls : nextId <= MaxTokens /\ FedFilter(call)
    \/ FedVerify
    \/ \E outcome \in RegisterOutcomes : FedRegister(outcome)
    \/ FedRegistered
    \/ FedIssueCreate
    \/ FedIssueSign
    \/ now < MaxTime /\ Tick

SpecFed == InitFed /\ [][NextFed]_vars

\* the server is constructed, issues tokens, is stopped and constructed
\* again, on key files in every state
InitKeys ==
    /\ now = 0
    /\ privkey = NoKey
    /\ tokens = [id \in {} |-> None]
    /\ nextId = 1
    /\ issuedTokens = {}
    /\ issue = IssueIdle
    /\ revoke = [p \in RevokeProcs |-> RevokeIdle]
    /\ cleanup = CleanupIdle
    /\ req = ReqIdle
    /\ ret = NoReturn
    /\ calc = CalcIdle
    /\ Users = {}
    /\ oauth = <<>>
    /\ fed = FedIdle
    /\ files \in [key : KeyFileStates, pub : PubFileStates]
    /\ boot = [state |-> "down", setups |-> 0]

NextKeys ==
    \/ boot.setups < MaxSetups /\ KeySetup
    \/ Shutdown
    \/ \E p \in StoreSnapshots, l \in ShortLifetimes :
          boot.state = "up" /\ nextId <= MaxIssued /\ IssueCreate(p, l)
    \/ boot.state = "up" /\ IssueSign
    \/ \E key \in KeyFileStates, pub \in PubFileStates :
          boot.setups < MaxSetups /\ FileChange(key, pub)

SpecKeys == InitKeys /\ [][NextKeys]_vars

\* =================================================================== claims
\* what the claims read off a credential, stated without the model's decoder
IsJwt(token) == "sig" \in DOMAIN token
SignedByServer(token) == IsJwt(token) /\ token.sig = [key |-> ServerKey, over |-> token.claims]
ClaimsOf(token) == token.claims.json
\* some dimension of the requirement shares a value with the same dimension
\* of the held permissions
Overlaps(requirement, held) ==
    \E d \in DOMAIN requirement \cap DOMAIN held :
        \E i \in 1..Len(requirement[d]) : \E j \in 1..Len(held[d]) :
            requirement[d][i] = held[d][j]

\* C1: a protected request reaches ALLOWED (the wrapped handler is called)
\* only if its credential is signed by the server key and was not expired
\* when decode_token checked it, and, when the table was read, a tracking
\* record with the token's token_id was in it and the endpoint's requirement
\* overlaps the token's embedded permissions.
C1_AllowedOnlyWhenValid ==
    [][ /\ (req.pc = "idle" /\ req'.pc = "decoded") =>
              /\ SignedByServer(req'.token)
              /\ now < ClaimsOf(req'.token).exp
        /\ (req.pc # "done" /\ req'.pc = "done" /\ req'.called) =>
              /\ req.pc = "decoded"
              /\ SignedByServer(req.token)
              /\ ClaimsOf(req.token).token_id \in DOMAIN tokens
              /\ Overlaps(req.permissions, ClaimsOf(req.token).permissions) ]_vars

C1_Witness ==
    /\ req.pc = "done"
    /\ req.called
    /\ req.response.status = 200
    /\ SignedByServer(req.token)
    /\ ClaimsOf(req.token).token_id \in DOMAIN tokens

\* C2: for a client that sends an Accept header, a request whose credential
\* is absent (NO_TOKEN), malformed, expired, or correctly signed but without a
\* tracking record gets the same 401 answer in all four cases: the login page
\* where HTML is asked for, the structured 401 otherwise.
C2_Expected401(r) ==
    /\ r.response.status = 401
    /\ r.response.body =
          IF r.response_class = "HTMLResponse" \/
             (\E i \in 1..Len(r.headers["accept"]) : r.headers["accept"][i] = "text/html")
          THEN "login_page" ELSE "json"

C2_RejectedAlike ==
    [][ (req.pc # "done" /\ req'.pc = "done" /\ "accept" \in DOMAIN req'.headers) =>
          /\ (req.pc = "idle" /\ (req'.token = NO_TOKEN \/ ~IsJwt(req'.token)))
                => C2_Expected401(req')
          /\ (req.pc = "idle" /\ SignedByServer(req'.token)
                /\ ClaimsOf(req'.token).exp <= now)
                => C2_Expected401(req')
          /\ (req.pc = "decoded" /\ ClaimsOf(req.token).token_id \notin DOMAIN tokens)
                => C2_Expected401(req') ]_vars

\* C3: at the moment issue_token returns, for the snapshot and the lifetime
\* it was called with, decode_token of the returned token succeeds and gives
\* claims whose permissions equal that snapshot, and is_valid_token of the
\* token_id in those claims is true.
C3_IssueThenDecode ==
    [][ (ret'.op = "issue_token") =>
          LET decoded == decode_token(ret'.token, privkey', now')
          IN  /\ decoded # None
              /\ decoded[2].permissions = issue.permissions
              /\ decoded[2].permissions = ret'.permissions
              /\ is_valid_token(tokens', decoded[2].token_id) ]_vars

\* issue_token has returned a token for a snapshot of several dimensions,
\* the clock having moved while it awaited the store
C3_Witness ==
    /\ ret.op = "issue_token"
    /\ ret.token_id \in DOMAIN tokens
    /\ Cardinality(DOMAIN ret.permissions) > 1
    /\ Len(ret.permissions["users"]) > 0
    /\ ret.lifetime > 0
    /\ fromisoformat(tokens[ret.token_id].expiration) < ClaimsOf(ret.token).exp

\* C4: when revoke_token(token_id) returns, no record with that token_id is
\* in the table; a step of revoke_token changes the table by at most the
\* removal of that id, also for an id never issued, one already revoked, and
\* with two callers interleaved.
C4_RevokeIdempotent ==
    /\ [](ret.op = "revoke_token" => ~is_valid_token(tokens, ret.token_id))
    /\ [][ \A p \in RevokeProcs :
             /\ (revoke[p].pc = "idle" /\ revoke'[p].pc = "got") => tokens' = tokens
             /\ (revoke[p].pc = "got" /\ revoke'[p].pc = "idle") =>
                   /\ DOMAIN tokens' = DOMAIN tokens \ {revoke[p].token_id}
                   /\ \A id \in DOMAIN tokens' : tokens'[id] = tokens[id] ]_vars

\* two callers revoked the same issued id, the second after the record was gone
C4_Witness ==
    /\ ret.op = "revoke_token"
    /\ ret.token_id # UnknownId
    /\ ret.token_id \notin DOMAIN tokens
    /\ \E p \in RevokeProcs :
          /\ revoke[p].pc = "got"
          /\ revoke[p].token_id = ret.token_id
          /\ revoke[p].token # None

\* C5: each turn of the sweep removes the record it examines if and only if
\* that record's stored expiration is strictly before the time the sweep
\* observes; it changes nothing else in the table.
C5_SweepExactlyExpired ==
    [][ (cleanup.pc = "sweep" /\ cleanup'.pc = "sweep" /\ cleanup'.i = cleanup.i + 1) =>
          LET token == cleanup.all_tokens[cleanup.i]
          IN  /\ (token.expiration.iso < now => token.token_id \notin DOMAIN tokens')
              /\ (token.expiration.iso >= now => tokens' = tokens)
              /\ \A id \in DOMAIN tokens \ {token.token_id} :
                    id \in DOMAIN tokens' /\ tokens'[id] = tokens[id] ]_vars

\* a sweep over two records has removed the expired one and kept the other
C5_Witness ==
    /\ cleanup.pc = "sweep"
    /\ cleanup.i > Len(cleanup.all_tokens)
    /\ \E j, k \in 1..Len(cleanup.all_tokens) :
          /\ cleanup.all_tokens[j].expiration.iso < now
          /\ cleanup.all_tokens[j].token_id \notin DOMAIN tokens
          /\ cleanup.all_tokens[k].expiration.iso >= now
          /\ cleanup.all_tokens[k].token_id \in DOMAIN tokens

\* C6: no step of a sweep removes a record that was created after the sweep
\* read the table and whose expiration is in the future.
C6_SweepSparesNewRecords ==
    [][ (cleanup.pc = "sweep" /\ cleanup' # cleanup) =>
          \A id \in DOMAIN tokens :
             ( /\ \A j \in 1..Len(cleanup.all_tokens) : cleanup.all_tokens[j].token_id # id
               /\ tokens[id].expiration.iso > now )
             => (id \in DOMAIN tokens' /\ tokens'[id] = tokens[id]) ]_vars

\* a sweep has removed a record while a record issued during it is in the table
C6_Witness ==
    /\ cleanup.pc = "sweep"
    /\ cleanup.i > Len(cleanup.all_tokens)
    /\ cleanup.deleted >= 1
    /\ \E id \in DOMAIN tokens :
          /\ \A j \in 1..Len(cleanup.all_tokens) : cleanup.all_tokens[j].token_id # id
          /\ tokens[id].expiration.iso > now

\* C7: the count token_cleanup reports equals the number of records this
\* sweep deleted itself.
C7_CountIsOwnDeletions ==
    ret.op = "token_cleanup" => ret.removed_count = ret.deleted

\* C8: the permission check of a request with a decoded, tracked token calls
\* the handler if and only if some dimension of the requirement shares a
\* value with the same dimension of the token's permissions; otherwise the
\* answer is 403, also for a requirement with no dimension.
C8_PermissionCheckIsOverlap ==
    (calc.op = "permission_check" /\ "result" \in DOMAIN calc) =>
        /\ calc.result.called = Overlaps(calc.permissions, calc.token_permissions)
        /\ (~Overlaps(calc.permissions, calc.token_permissions) =>
               calc.result.response.status = 403)
        /\ (calc.result.called => calc.result.response.status = 200)
        /\ (DOMAIN calc.permissions = {} =>
               ~calc.result.called /\ calc.result.response.status = 403)

\* allowed through the second of two dimensions, the first one not matching
C8_Witness ==
    /\ calc.op = "permission_check"
    /\ "result" \in DOMAIN calc
    /\ calc.result.called
    /\ calc.permissions = [groups |-> <<"a">>, roles |-> <<"b", "a">>]
    /\ calc.token_permissions = [groups |-> <<"c", "b">>, roles |-> <<"c", "b">>]

\* C9: parse_permissions returns exactly the non-empty dimensions given; with
\* none given it returns the router default if one is supplied (not None, not
\* empty) and the server's DEFAULT_PERMISSION otherwise.
C9_NonEmpty(arg) == arg # None /\ Len(arg.list) > 0
C9_ParsePermissions ==
    (calc.op = "parse_permissions" /\ "result" \in DOMAIN calc) =>
        LET given == {d \in Dims : C9_NonEmpty(calc[d])}
        IN  IF given # {}
            THEN /\ DOMAIN calc.result = given
                 /\ \A d \in given : calc.result[d] = calc[d].list
            ELSE IF calc.default_permissions # None
                    /\ DOMAIN calc.default_permissions # {}
            THEN calc.result = calc.default_permissions
            ELSE calc.result = calc.DEFAULT_PERMISSION

\* nothing given and no router default: the server default comes back
C9_Witness ==
    /\ calc.op = "parse_permissions"
    /\ "result" \in DOMAIN calc
    /\ \A d \in Dims : ~C9_NonEmpty(calc[d])
    /\ calc.default_permissions = None
    /\ calc.result = [users |-> <<"root">>]

\* C10: get_user_permissions returns duplicate-free actions, roles and groups
\* lists equal as sets to the groups of the user, their roles and those
\* roles' actions, and a users list holding the username alone.
C10_List(d, k) == IF k \in DOMAIN d THEN d[k] ELSE <<>>
C10_NoDuplicates(list) == \A i, j \in 1..Len(list) : i # j => list[i] # list[j]
C10_Set(list) == {list[i] : i \in 1..Len(list)}
C10_PermissionsAreTheUnion ==
    (calc.op = "get_user_permissions" /\ "result" \in DOMAIN calc) =>
        LET user == calc.user
            groups == C10_Set(user.groups)
            roles == UNION {C10_Set(g.roles) : g \in groups}
            actions == UNION {C10_Set(r.actions) : r \in roles}
            result == calc.result
        IN  /\ result["users"] = <<user.username>>
            /\ C10_Set(C10_List(result, "groups")) = {g.group_name : g \in groups}
            /\ C10_Set(C10_List(result, "roles")) = {r.role : r \in roles}
            /\ C10_Set(C10_List(result, "actions")) = {a.action : a \in actions}
            /\ C10_NoDuplicates(C10_List(result, "groups"))
            /\ C10_NoDuplicates(C10_List(result, "roles"))
            /\ C10_NoDuplicates(C10_List(result, "actions"))

\* C11: validate_user_pw returns None for every account whose account_type
\* is "service", whatever the password: it neither returns the user nor raises.
C11_ServiceAccountGetsNone ==
    (calc.op = "validate_user_pw" /\ "result" \in DOMAIN calc
        /\ Users_get(Accounts, calc.username) # None
        /\ Users_get(Accounts, calc.username).account_type = "service") =>
        calc.result = [kind |-> "return", value |-> None]

\* C12: for a user that is no service account and whose stored password is
\* a bcrypt hash, validate_user_pw returns the user if and only if the
\* password given is the one hashed, and None otherwise; for a username not
\* in the table it returns None; it raises in neither case.
C12_PasswordDecides ==
    (calc.op = "validate_user_pw" /\ "result" \in DOMAIN calc) =>
        LET user == Users_get(Accounts, calc.username)
        IN  /\ user = None => calc.result = [kind |-> "return", value |-> None]
            /\ ( /\ user # None
                 /\ user.account_type # "service"
                 /\ user.password # None
                 /\ "bcrypt" \in DOMAIN user.password ) =>
                   calc.result = [kind |-> "return",
                                  value |-> IF calc.password # None
                                               /\ calc.password.str = user.password.bcrypt
                                            THEN user ELSE None]

\* the right password let alice in
C12_Witness ==
    /\ calc.op = "validate_user_pw"
    /\ "result" \in DOMAIN calc
    /\ calc.username = "alice"
    /\ calc.password = [str |-> "pw1"]
    /\ calc.result.kind = "return"
    /\ calc.result.value # None
    /\ calc.result.value.username = "alice"

\* C13: whenever the hash comparison raises (a ValueError from a stored
\* password that is no bcrypt hash, or any other exception),
\* validate_user_pw returns None: never the user, and no exception.
C13_ComparisonErrorGetsNone ==
    (calc.op = "validate_user_pw" /\ "result" \in DOMAIN calc) =>
        LET user == Users_get(Accounts, calc.username)
        IN  ( /\ user # None
              /\ user.account_type # "service"
              /\ checkpw(calc.password, user.password) \notin {"True", "False"} ) =>
                calc.result = [kind |-> "return", value |-> None]

\* the Accept header of the request names text/html
C14_AcceptsHtml(r) ==
    /\ "accept" \in DOMAIN r.headers
    /\ \E i \in 1..Len(r.headers["accept"]) : r.headers["accept"][i] = "text/html"

\* C14: a request with NO_TOKEN from a client whose Accept header includes
\* text/html is answered 401 with the login page, the cookie token=INVALID
\* and the cookie ref = the path requested, and the handler is not called.
C14_HtmlChallenge ==
    (req.pc = "done" /\ req.token = NO_TOKEN /\ C14_AcceptsHtml(req)) =>
        /\ req.response.status = 401
        /\ req.response.body = "login_page"
        /\ req.response.cookies = {<<"token", "INVALID">>, <<"ref", req.path>>}
        /\ ~req.called

\* a browser without a credential was challenged at an endpoint that
\* declares a JSON response
C14_Witness ==
    /\ req.pc = "done"
    /\ req.token = NO_TOKEN
    /\ C14_AcceptsHtml(req)
    /\ req.response_class = "JSONResponse"
    /\ req.path = "/data"
    /\ <<"ref", "/data">> \in req.response.cookies

\* C15: at every protected endpoint, whatever response class it declares, a
\* request with NO_TOKEN from a client whose Accept header is sent and does
\* not include text/html is answered with the structured 401: no HTML body,
\* no token or ref cookie.
C15_JsonClientGetsStructured401 ==
    (req.pc = "done" /\ req.token = NO_TOKEN
        /\ "accept" \in DOMAIN req.headers /\ ~C14_AcceptsHtml(req)) =>
        /\ req.response.status = 401
        /\ req.response.body = "json"
        /\ req.response.cookies = {}
        /\ ~req.called

\* C16: a request whose token is valid and tracked but whose permissions do
\* not satisfy the requirement is answered 403 without calling the handler:
\* the forbidden page for a client whose Accept header includes text/html,
\* the structured 403 naming the requirement for every other client.
C16_Forbidden ==
    [][ ( /\ req.pc = "decoded" /\ req'.pc = "done"
          /\ ClaimsOf(req.token).token_id \in DOMAIN tokens
          /\ ~Overlaps(req.permissions, ClaimsOf(req.token).permissions) ) =>
          /\ req'.response.status = 403
          /\ ~req'.called
          /\ IF C14_AcceptsHtml(req)
             THEN req'.response.body = "forbidden_page"
             ELSE /\ req'.response.body = "json"
                  /\ req'.response.detail =
                        <<"not authorized, permissions required: ", req.permissions>> ]_vars

\* C20: when the private key file exists but cannot be read or parsed,
\* key_setup fails: no server is constructed, the files are left as they
\* were and no other key is generated or put in use.
C20_CorruptKeyIsFatal ==
    [][ ( /\ boot.state = "down" /\ boot'.setups = boot.setups + 1
          /\ files.key.state # "absent"
          /\ (files.key.state = "locked" \/ "private" \notin DOMAIN files.key.text) ) =>
          /\ boot'.state = "failed"
          /\ files' = files
          /\ privkey' = NoKey ]_vars

\* the ID token a call of generate_google_oauth_token presents
presented(call) ==
    IF call.auth_code = None THEN jsonable_encoder(call.request.body) ELSE call.auth_code

\* its email is missing (or empty), or email_verified is missing or false
UnverifiedEmail(t) ==
    \/ "email" \notin DOMAIN t.claims
    \/ t.claims.email = ""
    \/ "email_verified" \notin DOMAIN t.claims
    \/ ~t.claims.email_verified

SocialLoginError == Raise(HTTPException(400, <<"Unable to validate social login">>))

\* C17 as stated: a federation call presenting an ID token without a
\* verified email always ends with the generic "Unable to validate social
\* login" error, and changes neither the Users table nor the Tokens table.
C17_UnverifiedAlwaysGeneric ==
    [][ (fed.pc # "idle" /\ UnverifiedEmail(presented(fed.call))) =>
          /\ Users' = Users
          /\ tokens' = tokens
          /\ (fed'.pc = "idle" => ret' = FedReturn(fed.call, SocialLoginError)) ]_vars

\* C17: a federation call presenting an ID token without a verified email
\* never succeeds and changes neither the Users table nor the Tokens table;
\* it ends at the verification step, with the generic "Unable to validate
\* social login" error once a google configuration was found and the call carries an ID token or the
\* first-party marker, and with the provider or header error otherwise.
C17_UnverifiedNeverLogsIn ==
    [][ (fed.pc # "idle" /\ UnverifiedEmail(presented(fed.call))) =>
          /\ Users' = Users
          /\ tokens' = tokens
          /\ (fed'.pc = "idle" =>
                /\ fed.pc = "filtered"
                /\ ret'.op = "generate_google_oauth_token"
                /\ ret'.result.kind = "raise"
                /\ ( ( /\ fed.google_oauth # <<>>
                       /\ (fed.call.auth_code # None \/ fed.call.request.headers = "client") )
                     => ret' = FedReturn(fed.call, SocialLoginError) )
                /\ ( fed.google_oauth = <<>>
                     => ret'.result = Raise(Exc("GoogleOauthNotEnabledOrConfigured")) ) ) ]_vars

\* a call presenting a correctly signed token with an unverified email has
\* ended with the generic error
C17_Witness ==
    /\ ret.op = "generate_google_oauth_token"
    /\ presented(ret.call).sig = "google"
    /\ "email_verified" \in DOMAIN presented(ret.call).claims
    /\ ~presented(ret.call).claims.email_verified
    /\ ret.result = SocialLoginError

\* an enabled configuration of provider google is in the table
EnabledGoogle(table) ==
    \E i \in DOMAIN table : table[i].provider = "google" /\ table[i].enabled

\* C18: without an enabled google configuration generate_google_oauth_token
\* gets no further than the provider lookup and ends with
\* GoogleOauthNotEnabledOrConfigured.
C18_EnabledProviderOnly ==
    ~EnabledGoogle(oauth) =>
        /\ fed.pc \in {"idle", "filtered"}
        /\ (ret.op = "generate_google_oauth_token" =>
              ret.result = Raise(Exc("GoogleOauthNotEnabledOrConfigured")))

\* C19: when register_user reports a pending activation, the call returns
\* that result as it is, and no step of the call up to that return creates
\* a Tokens record.
C19_PendingReturnedVerbatim ==
    [][ /\ ( \/ fed.pc \in {"filtered", "registered"}
             \/ fed.pc = "looked" /\ fed.user = <<>> )
           => (tokens' = tokens /\ nextId' = nextId /\ issuedTokens' = issuedTokens)
        /\ (fed.pc = "registered" /\ activation_pending(fed.result) /\ fed' # fed)
           => (fed'.pc = "idle" /\ ret' = FedReturn(fed.call, Return(fed.result))) ]_vars

\* a call has returned the pending result of a registration that left the
\* user in the Users table
C19_Witness ==
    /\ ret.op = "generate_google_oauth_token"
    /\ ret.result.kind = "return"
    /\ "text" \in DOMAIN ret.result.value
    /\ activation_pending(ret.result.value)
    /\ Users_filter(Users, presented(ret.call).claims.email) # <<>>

\* the step is a run of key_setup
KeySetupStep == boot.state = "down" /\ boot'.setups = boot.setups + 1

\* C21: a server that key_setup starts on an existing private key file
\* holds the key of that file and has not rewritten the file (no key was
\* generated), so every token signed with that key before the restart still
\* verifies.
C21_PersistedKeyIsLoaded ==
    [][ (KeySetupStep /\ files.key.state # "absent" /\ boot'.state = "up") =>
          /\ files'.key = files.key
          /\ from_json(files.key.text) = Return(privkey')
          /\ \A t \in issuedTokens :
                from_json(files.key.text) = Return(t.sig.key) =>
                    decode_token_noexp(t, privkey', now') # None ]_vars

\* C26: while a server that key_setup started is up, the .key file holds
\* its private key and the .pub file holds the public half of that key.
C26_PubMatchesPrivate ==
    boot.state = "up" =>
        /\ files.key = File(export_private(privkey))
        /\ files.pub = File(export_public(privkey))

\* C22: when issue_token returns, the Tokens record of the token and the
\* claims signed into it name the same token_id and the same expiration
\* instant.
C22_RecordAndTokenAgree ==
    ret.op = "issue_token" =>
        LET claims == json_loads(ret.token.claims)
            record == Tokens_get(tokens, claims.token_id)
        IN  /\ claims.token_id = ret.token_id
            /\ record # None
            /\ record.token_id = claims.token_id
            /\ fromisoformat(record.expiration) = claims.exp

\* C27: when issue_token leaves by an exception, no Tokens record with the
\* token_id it generated is in the table.
C27_AllOrNothing ==
    (ret.op = "issue_token" /\ "result" \in DOMAIN ret /\ ret.result.kind = "raise") =>
        ~is_valid_token(tokens, ret.token_id)

\* C28: a protected request that carries no Accept header ends ALLOWED (the
\* handler's answer), or with status 401 or 403, whatever its credential.
C28_NoAcceptHeaderNever500 ==
    (req.pc = "done" /\ "accept" \notin DOMAIN req.headers) =>
        \/ req.called /\ req.response = HandlerResult
        \/ ~req.called /\ req.response.status \in {401, 403}

\* C23: a protected request with a token that decodes and is tracked is
\* decided by the permissions recorded when the token was issued: the handler
\* is called exactly when those satisfy the requirement, and the request is
\* answered 403 otherwise, whatever the user's groups, roles and actions have
\* become since.
C23_PermissionsFrozenAtIssue ==
    [][ ( /\ req.pc = "decoded" /\ req'.pc = "done"
          /\ is_valid_token(tokens, req.claims.token_id) ) =>
          LET issued == Tokens_get(tokens, req.claims.token_id).token
          IN  /\ req'.called <=> is_allowed(req.permissions, issued)
              /\ req'.response.status = IF is_allowed(req.permissions, issued) THEN 200 ELSE 403
              /\ req'.response.cookies = {} ]_vars

\* the permissions the user's row in Users gives now
CurrentPermissions(username) ==
    get_user_permissions(CHOOSE u \in Users : u.username = username)

\* a request was allowed by its token although the user's groups no longer
\* satisfy the requirement
C23_Witness ==
    /\ req.pc = "done"
    /\ req.called
    /\ ~is_allowed(req.permissions, CurrentPermissions(req.claims.permissions["users"][1]))

\* the value of the token cookie of a request, None without one
CookieToken(request) == headers_loop(request.headers, 1, NoIndex, None).value.token_in_cookie
WellFormedCookies(request) == headers_loop(request.headers, 1, NoIndex, None).kind = "return"

\* C24: a request whose token cookie is INVALID, or whose path is the login
\* path, is answered by the middleware with a redirect; it is not handed on,
\* and no token is decoded or looked up for it.
C24_InvalidOrLoginShortCircuits ==
    ( /\ ret.op = "detect_token_in_cookie"
      /\ WellFormedCookies(ret.request)
      /\ (CookieToken(ret.request) = INVALID \/ ret.request.path = "/login") ) =>
        /\ ret.result.kind = "redirect"
        /\ req.pc = "done"
        /\ req.response.body = "redirect"

\* the authorization headers of a list
AuthorizationHeaders(headers) == {i \in DOMAIN headers : headers[i][1] = "authorization"}

\* C25: for a request on a path other than the login path with a token
\* cookie that is not INVALID, the one authorization header handed on is the
\* bearer header of the cookie's token, and that token is the credential
\* mock_function evaluates.
C25_CookieReplacesAuthorization ==
    ( /\ ret.op = "detect_token_in_cookie"
      /\ WellFormedCookies(ret.request)
      /\ ret.request.path # "/login"
      /\ TokenGiven(CookieToken(ret.request))
      /\ CookieToken(ret.request) # INVALID ) =>
        /\ ret.result.kind = "call_next"
        /\ Cardinality(AuthorizationHeaders(ret.result.headers)) = 1
        /\ oauth2_scheme(ret.result.headers) = Return(CookieToken(ret.request))
        /\ req.token = CookieToken(ret.request)

====
